---- MODULE Spec2Model ----
(***************************************************************************)
(* Model of quizapp.py: the memoized fetch_questions and the session       *)
(* controller in main().  One action is one user interaction with the      *)
(* page together with the script run(s) it triggers.  Strings that the     *)
(* code formats and splits (option keys, option labels) are sequences of   *)
(* one-character strings, so that "key: value".split(":")[0] is computed.  *)
(***************************************************************************)
EXTENDS Integers, Sequences, FiniteSets, TLC

\* ---- bounds ----
MaxQ == 2          \* longest "mcqs" array the external model returns
MaxCalls == 2      \* cap on the number of external generate_content calls

\* ---- program constants ----
MinQuestions == 1
MaxQuestions == 20

\* ---- user inputs (lines 90-98) ----
Levels == {"Easy", "Medium", "Hard"}
Counts == MinQuestions .. MaxQuestions
\* the argument tuples the user tries, two of {"notes"} \X Levels \X Counts
InputTuples == {<<"notes", "Easy", 5>>, <<"notes", "Hard", 3>>}

\* ---- question records the external model may return ----
OptionsAB == (<<"a">> :> <<"x">>) @@ (<<"b">> :> <<"y", ":", "z">>)

GoodQ == [mcq |-> "q1", options |-> OptionsAB, correct |-> <<"a">>]
BadCorrectQ == [mcq |-> "q2", options |-> OptionsAB, correct |-> <<"e">>]
QuestionPool == {GoodQ, BadCorrectQ}

RECURSIVE SeqsUpTo(_, _)
SeqsUpTo(S, n) ==
    IF n = 0 THEN {<<>>}
    ELSE LET shorter == SeqsUpTo(S, n - 1)
         IN  shorter \cup {Append(s, x) : s \in shorter, x \in S}

QuestionLists == SeqsUpTo(QuestionPool, MaxQ)

\* response.text of the external model, by what json.loads / .get make of it;
\* "error" is generate_content itself raising (no credential, network)
Responses ==
    {[kind |-> k, mcqs |-> <<>>] : k \in {"error", "nonjson", "nonobject", "nokey"}}
    \cup {[kind |-> "object", mcqs |-> qs] : qs \in QuestionLists}

EmptyMap == [i \in {} |-> <<>>]

VARIABLES
    cache,             \* st.cache_data store of fetch_questions: args -> value
    calls,             \* number of generate_content invocations per args
    parseFailed,       \* args whose call ended in the JSONDecodeError branch
    inputs,            \* (text_content, quiz_level, num_questions) of the last generate
    questions,         \* st.session_state.questions
    quiz_generated,    \* st.session_state.quiz_generated
    selected_options,  \* st.session_state.selected_options: index -> letter
    radio,             \* values of the form's radio widgets not yet submitted
    submitted,         \* value of form_submit_button in the last run
    results,           \* per-question report lines written by the last run
    score,             \* <<marks, total>> displayed by the last run, or <<>>
    tier,              \* feedback tier displayed by the last run
    fault,             \* exception that ended the last run, or "none"
    lastAction,        \* the interaction that triggered the last run
    lastResp           \* kind of the response the last interaction got, if any

vars == <<cache, calls, parseFailed, inputs, questions, quiz_generated,
          selected_options, radio, submitted, results, score, tier, fault,
          lastAction, lastResp>>

\* ---- pure helpers ----

\* f"{key}: {value}"  (line 123)
FormatOption(key, value) == key \o <<":", " ">> \o value

\* selected_option.split(":")[0]  (line 135)
RECURSIVE SplitFirst(_)
SplitFirst(s) ==
    IF s = <<>> \/ Head(s) = ":" THEN <<>>
    ELSE <<Head(s)>> \o SplitFirst(Tail(s))

Indices(qs) == 0 .. (Len(qs) - 1)

\* body of fetch_questions after the prompt is built (lines 71-77)
fetch_questions(resp) ==
    IF resp.kind = "error" THEN [raised |-> "APIError", value |-> <<>>]
    ELSE IF resp.kind = "nonjson" THEN [raised |-> "none", value |-> <<>>]
    ELSE IF resp.kind = "nonobject" THEN [raised |-> "AttributeError", value |-> <<>>]
    ELSE IF resp.kind = "nokey" THEN [raised |-> "none", value |-> <<>>]
    ELSE [raised |-> "none", value |-> resp.mcqs]

\* @st.cache_data: store the returned value under the call's arguments
CacheStoreSkipEmpty(c, k, v) == IF v = <<>> THEN c ELSE (k :> v) @@ c
CacheStoreEvict(c, k, v) == (k :> v)
CacheStore(c, k, v) == (k :> v) @@ c

RECURSIVE SumCalls(_, _)
SumCalls(f, S) ==
    IF S = {} THEN 0
    ELSE LET k == CHOOSE x \in S : TRUE IN f[k] + SumCalls(f, S \ {k})
TotalCalls == SumCalls(calls, InputTuples)

\* the form's loop (lines 121-135): a radio holding a value records its letter
RecordSelections(sel, rad, qs) ==
    LET chosen == DOMAIN rad \cap Indices(qs)
    IN  [i \in DOMAIN sel \cup chosen |->
            IF i \in chosen THEN SplitFirst(rad[i]) ELSE sel[i]]

\* selected_letter == correct_letter  (line 158); .get(i) of a missing index is None
IsCorrectAnySelection(sel, i, q) == i \in DOMAIN sel
IsCorrect(sel, i, q) == i \in DOMAIN sel /\ sel[i] = q.correct

\* the results loop (lines 145-159), from index i on
RECURSIVE ScoreFrom(_, _, _, _, _)
ScoreFrom(qs, sel, i, marks, lines) ==
    IF i >= Len(qs) THEN [raised |-> "none", marks |-> marks, lines |-> lines]
    ELSE LET q == qs[i + 1]
             truthy == i \in DOMAIN sel /\ sel[i] # <<>>
             line == IF truthy THEN "selected" ELSE "unanswered"
         IN  IF truthy /\ sel[i] \notin DOMAIN q.options
             THEN [raised |-> "KeyError", marks |-> marks, lines |-> lines]
             ELSE IF q.correct \notin DOMAIN q.options
             THEN [raised |-> "KeyError", marks |-> marks,
                   lines |-> Append(lines, line)]
             ELSE ScoreFrom(qs, sel, i + 1,
                            IF IsCorrect(sel, i, q) THEN marks + 1 ELSE marks,
                            Append(lines, line))

\* score_percentage = (marks / total) * 100 compared with a threshold p;
\* for totals up to MaxQuestions the float comparison agrees with the exact one
PercentageAtLeast(marks, total, p) == marks * 100 >= p * total
PercentageIs(marks, total, p) == marks * 100 = p * total

\* the feedback chain (lines 170-177)
FeedbackTierStrict(marks, total) ==
    IF PercentageIs(marks, total, 100) THEN "top"
    ELSE IF marks * 100 > 80 * total THEN "high"
    ELSE IF PercentageAtLeast(marks, total, 50) THEN "mid"
    ELSE "low"
FeedbackTier(marks, total) ==
    IF PercentageIs(marks, total, 100) THEN "top"
    ELSE IF PercentageAtLeast(marks, total, 80) THEN "high"
    ELSE IF PercentageAtLeast(marks, total, 50) THEN "mid"
    ELSE "low"

\* what the last run left on the page
FetchFaults == {"APIError", "AttributeError"}
FormVisible == quiz_generated /\ fault \notin FetchFaults
ResetVisible == quiz_generated /\ fault = "none"

Init ==
    /\ cache = EmptyMap
    /\ calls = [k \in InputTuples |-> 0]
    /\ parseFailed = {}
    /\ inputs = <<"notes", "Easy", 5>>
    /\ questions = <<>>
    /\ quiz_generated = FALSE
    /\ selected_options = EmptyMap
    /\ radio = EmptyMap
    /\ submitted = FALSE
    /\ results = <<>>
    /\ score = <<>>
    /\ tier = "none"
    /\ fault = "none"
    /\ lastAction = "start"
    /\ lastResp = "none"

NoResults == submitted' = FALSE /\ results' = <<>> /\ score' = <<>> /\ tier' = "none"

\* lines 107-111 with a value for fetch_questions: store it, reset the answers,
\* st.rerun(); the rerun renders the form with fresh radios
GenerateKeepAnswers(value) ==
    /\ questions' = value
    /\ quiz_generated' = TRUE
    /\ UNCHANGED <<selected_options, radio>>
    /\ fault' = "none"
    /\ NoResults
GenerateDone(value) ==
    /\ questions' = value
    /\ quiz_generated' = TRUE
    /\ selected_options' = EmptyMap
    /\ radio' = EmptyMap
    /\ fault' = "none"
    /\ NoResults

\* the "Generate Quiz" button (lines 107-111) and fetch_questions (44-77)
Generate(t, l, n) ==
    LET k == <<t, l, n>> IN
    /\ inputs' = k
    /\ lastAction' = "generate"
    /\ \/ /\ k \in DOMAIN cache
          /\ lastResp' = "cached"
          /\ GenerateDone(cache[k])
          /\ UNCHANGED <<cache, calls, parseFailed>>
       \/ /\ k \notin DOMAIN cache
          /\ TotalCalls < MaxCalls
          /\ \E resp \in Responses :
                LET r == fetch_questions(resp) IN
                /\ lastResp' = resp.kind
                /\ calls' = [calls EXCEPT ![k] = @ + 1]
                /\ IF r.raised = "none"
                   THEN /\ cache' = CacheStore(cache, k, r.value)
                        /\ parseFailed' = IF resp.kind = "nonjson"
                                          THEN parseFailed \cup {k}
                                          ELSE parseFailed
                        /\ GenerateDone(r.value)
                   ELSE /\ fault' = r.raised
                        /\ NoResults
                        /\ UNCHANGED <<cache, parseFailed, questions,
                                       quiz_generated, selected_options, radio>>

\* the user picks an option of question i in the form (lines 120-132);
\* inside st.form this triggers no run
SelectOption(i, key) ==
    /\ FormVisible
    /\ i \in Indices(questions)
    /\ key \in DOMAIN questions[i + 1].options
    /\ radio' = (i :> FormatOption(key, questions[i + 1].options[key])) @@ radio
    /\ lastAction' = "select"
    /\ UNCHANGED <<cache, calls, parseFailed, inputs, questions, quiz_generated,
                   selected_options, submitted, results, score, tier, fault>>
    /\ lastResp' = "none"

\* "Submit Answers" (lines 121-177): record the radios, then score
Submit ==
    /\ FormVisible
    /\ lastAction' = "submit"
    /\ submitted' = TRUE
    /\ selected_options' = RecordSelections(selected_options, radio, questions)
    /\ LET r == ScoreFrom(questions, selected_options', 0, 0, <<>>) IN
       /\ results' = r.lines
       /\ IF r.raised # "none"
          THEN fault' = r.raised /\ score' = <<>> /\ tier' = "none"
          ELSE IF Len(questions) = 0
          THEN fault' = "ZeroDivisionError" /\ score' = <<>> /\ tier' = "none"
          ELSE /\ fault' = "none"
               /\ score' = <<r.marks, Len(questions)>>
               /\ tier' = FeedbackTier(r.marks, Len(questions))
    /\ UNCHANGED <<cache, calls, parseFailed, inputs, questions, quiz_generated,
                   radio>>
    /\ lastResp' = "none"

\* "Reset Quiz" (lines 180-183), then the rerun in which no quiz is shown
ResetKeepAnswers ==
    /\ ResetVisible
    /\ lastAction' = "reset"
    /\ quiz_generated' = FALSE
    /\ fault' = "none"
    /\ NoResults
    /\ UNCHANGED <<cache, calls, parseFailed, inputs, questions,
                   selected_options, radio>>
    /\ lastResp' = "none"
ResetKeepScore ==
    /\ ResetVisible
    /\ lastAction' = "reset"
    /\ quiz_generated' = FALSE
    /\ selected_options' = EmptyMap
    /\ radio' = EmptyMap
    /\ fault' = "none"
    /\ UNCHANGED <<cache, calls, parseFailed, inputs, questions,
                   submitted, results, score, tier>>
    /\ lastResp' = "none"
Reset ==
    /\ ResetVisible
    /\ lastAction' = "reset"
    /\ quiz_generated' = FALSE
    /\ selected_options' = EmptyMap
    /\ radio' = EmptyMap
    /\ fault' = "none"
    /\ NoResults
    /\ UNCHANGED <<cache, calls, parseFailed, inputs, questions>>
    /\ lastResp' = "none"

\* any other widget interaction (lines 90-98): a run with no button pressed
Rerun ==
    /\ lastAction' = "rerun"
    /\ fault' = "none"
    /\ NoResults
    /\ UNCHANGED <<cache, calls, parseFailed, inputs, questions, quiz_generated,
                   selected_options, radio>>
    /\ lastResp' = "none"

Next ==
    \/ \E k \in InputTuples : Generate(k[1], k[2], k[3])
    \/ \E i \in 0 .. (MaxQ - 1), key \in UNION {DOMAIN q.options : q \in QuestionPool} :
          SelectOption(i, key)
    \/ Submit
    \/ Reset
    \/ Rerun

Spec == Init /\ [][Next]_vars

\* ---- the feedback chain on its own: every total and every correct count ----

InitTier ==
    /\ cache = EmptyMap
    /\ calls = [k \in InputTuples |-> 0]
    /\ parseFailed = {}
    /\ inputs = <<"notes", "Easy", 5>>
    /\ questions = <<>>
    /\ quiz_generated = TRUE
    /\ selected_options = EmptyMap
    /\ radio = EmptyMap
    /\ submitted = TRUE
    /\ results = <<>>
    /\ \E total \in Counts : \E marks \in 0 .. total : score = <<marks, total>>
    /\ tier = "none"
    /\ fault = "none"
    /\ lastAction = "submit"
    /\ lastResp = "none"

\* lines 162-177 applied to a computed marks / total
ShowFeedback ==
    /\ tier = "none"
    /\ score # <<>>
    /\ tier' = FeedbackTier(score[1], score[2])
    /\ UNCHANGED <<cache, calls, parseFailed, inputs, questions, quiz_generated,
                   selected_options, radio, submitted, results, score, fault,
                   lastAction, lastResp>>

NextTier == ShowFeedback

SpecTier == InitTier /\ [][NextTier]_vars

\* ---- properties ----

EmptySubmitNoFault ==
    (lastAction = "submit" /\ questions = <<>>) => fault = "none"

\* C3: a response that is not the expected JSON document makes the generate
\* step end without a fault and with an empty question list.
MalformedYieldsEmpty ==
    (lastAction = "generate" /\ lastResp \in {"nonjson", "nonobject"}) =>
        (fault = "none" /\ questions = <<>>)

\* C4: a displayed score counts exactly the indices whose recorded selection
\* equals the question's correct key, and a question with no recorded
\* selection is reported as unanswered.
CorrectIndices ==
    {i \in Indices(questions) :
        i \in DOMAIN selected_options
        /\ selected_options[i] = questions[i + 1].correct}

ScoreCountsMatches ==
    (submitted /\ fault = "none") =>
        /\ score = <<Cardinality(CorrectIndices), Len(questions)>>
        /\ Len(results) = Len(questions)
        /\ \A i \in Indices(questions) :
              /\ i \notin DOMAIN selected_options => results[i + 1] = "unanswered"
              /\ (i \in DOMAIN selected_options /\ selected_options[i] # <<>>)
                    => results[i + 1] = "selected"

ScoreWitness ==
    /\ submitted /\ fault = "none"
    /\ score = <<1, 2>>
    /\ results = <<"selected", "unanswered">>
    /\ selected_options = (0 :> <<"a">>)

\* C5: for every total in 1..20 and correct count in 0..total the tier shown
\* is top iff 100%, high iff in [80%,100%), mid iff in [50%,80%), low iff
\* below 50%.
TierMatchesPercentage ==
    tier # "none" =>
        LET c == score[1]
            t == score[2]
        IN  /\ tier \in {"top", "high", "mid", "low"}
            /\ (tier = "top") <=> (c = t)
            /\ (tier = "high") <=> (4 * t <= 5 * c /\ c < t)
            /\ (tier = "mid") <=> (t <= 2 * c /\ 5 * c < 4 * t)
            /\ (tier = "low") <=> (2 * c < t)

TierWitness == tier = "high" /\ score = <<16, 20>>

\* C6 (as stated): the external call is made at most once per input tuple.
AtMostOneCall == \A k \in InputTuples : calls[k] <= 1

\* C6 (amended): once a call for an input tuple has returned, its value stays
\* in the cache unchanged, no further external call is made for that tuple,
\* and every later generate with those inputs gets the cached list.
CachedNeverRefetched ==
    [][\A k \in DOMAIN cache :
          /\ k \in DOMAIN cache'
          /\ cache'[k] = cache[k]
          /\ calls'[k] = calls[k]
          /\ (lastAction' = "generate" /\ inputs' = k) =>
                (lastResp' = "cached" /\ fault' = "none"
                 /\ questions' = cache[k])]_vars

CacheHitWitness ==
    /\ lastAction = "generate" /\ lastResp = "cached"
    /\ questions # <<>>
    /\ Cardinality(DOMAIN cache) = 2

\* C7: every key of selected_options is an index of the current questions.
SelectionsWithinQuestions == DOMAIN selected_options \subseteq Indices(questions)

ShrunkQuizWitness ==
    /\ Len(questions) = 1
    /\ selected_options # EmptyMap
    /\ \E k \in DOMAIN cache : Len(cache[k]) = 2

\* C8: every question held by the session has its correct key among the keys
\* of its own options.
CorrectKeyInOptions ==
    \A i \in 1 .. Len(questions) :
        questions[i].correct \in DOMAIN questions[i].options

\* C9: a step puts a score on the page (or changes the one shown) only if it
\* is the submit action taken while the quiz is presented, and no score is
\* shown while no quiz is generated.
Display == <<submitted, results, score, tier>>

ScoredOnlyBySubmit ==
    [][/\ (submitted' /\ Display' # Display) =>
             (lastAction' = "submit" /\ quiz_generated /\ FormVisible)
       /\ (score' # <<>> \/ results' # <<>> \/ tier' # "none") => submitted'
       /\ submitted' => quiz_generated']_vars

ScoredWitness == submitted /\ score # <<>> /\ lastAction = "submit"

\* C10: once a generate for an input tuple took the JSONDecodeError branch,
\* the empty list stays cached for it; every later generate with those inputs
\* yields the empty list without a new external call.
ParseFailureMemoized ==
    [][\A k \in parseFailed' :
          /\ k \in DOMAIN cache'
          /\ cache'[k] = <<>>
          /\ k \in parseFailed =>
                /\ calls'[k] = calls[k]
                /\ (lastAction' = "generate" /\ inputs' = k) =>
                      (lastResp' = "cached" /\ questions' = <<>>
                       /\ quiz_generated')]_vars

ParseFailureWitness ==
    /\ lastAction = "generate" /\ lastResp = "cached"
    /\ inputs \in parseFailed
    /\ questions = <<>>

====
